---- MODULE Spec2Model ----
(***************************************************************************)
(* safe-password-utils: the strength classification of src/lib/index.ts.   *)
(*                                                                         *)
(* A password is a sequence of UTF-16 code units (what a JavaScript string *)
(* is); password.length is Len(password) and the regular expressions of    *)
(* the source, none of which has the u flag, test one code unit at a time. *)
(* A JavaScript value that is undefined is the record Undefined; an object *)
(* with an optional property left out is a record without that field.      *)
(***************************************************************************)
EXTENDS Integers, Sequences, FiniteSets

VARIABLES password, requirements, options, strength, entropy, crackTime,
          patterns, commonPasswordsCache, calls, generationOptions, generated,
          formatSeconds, formatContext, formatted

vars == <<password, requirements, options, strength, entropy, crackTime, patterns,
          commonPasswordsCache, calls, generationOptions, generated,
          formatSeconds, formatContext, formatted>>

(***************************************************************************)
(* Bounds of the inputs.                                                   *)
(***************************************************************************)
\* Passwords of SpecDefault: every sequence over Alphabet of at most FreeLen
\* code units, continued by repeats of its last code unit up to MaxLen.
FreeLen == 4

MaxLen == 13

\* The same for SpecRequirements and SpecTiers.
ShortFree == 2

ShortMax == 4

\* minCapitals, minNumbers and minSpecial range over 0..MaxMin.
MaxMin == 2

\* 'a', 'Z', '0', '!' and U+00E9 (e with acute accent, outside ASCII).
Alphabet == {97, 90, 48, 33, 233}

\* The passwords of the tests and of the README:
\* 'abc123', 'password123', 'Pass1!word', 'Password123!@#', 'aA1!',
\* 'TestPassword123!', 'aaaaaaaaaaaa', 'MyP@ss123!'.
Scenarios ==
  { <<97, 98, 99, 49, 50, 51>>,
    <<112, 97, 115, 115, 119, 111, 114, 100, 49, 50, 51>>,
    <<80, 97, 115, 115, 49, 33, 119, 111, 114, 100>>,
    <<80, 97, 115, 115, 119, 111, 114, 100, 49, 50, 51, 33, 64, 35>>,
    <<97, 65, 49, 33>>,
    <<84, 101, 115, 116, 80, 97, 115, 115, 119, 111, 114, 100, 49, 50, 51, 33>>,
    <<97, 97, 97, 97, 97, 97, 97, 97, 97, 97, 97, 97>>,
    <<77, 121, 80, 64, 115, 115, 49, 50, 51, 33>> }

SeqsUpTo(n) == UNION {[1..k -> Alphabet] : k \in 0..n}

\* u followed by k repeats of its last code unit.
Pad(u, k) == [i \in 1..(Len(u) + k) |-> IF i <= Len(u) THEN u[i] ELSE u[Len(u)]]

Passwords(free, max) ==
  LET padded == {Pad(u, k) : u \in (SeqsUpTo(free) \ {<<>>}), k \in 0..(max - 1)}
  IN  (Scenarios \cup {<<>>}) \cup {p \in padded : Len(p) <= max}

Undefined == [undefined |-> TRUE]

\* The requirements objects: a property left out reads as undefined, which
\* is falsy like FALSE and 0.
RequirementSets ==
  [requireCapital : BOOLEAN, requireNumber : BOOLEAN, requireSpecial : BOOLEAN,
   minCapitals : 0..MaxMin, minNumbers : 0..MaxMin, minSpecial : 0..MaxMin]

NoRequirement ==
  [requireCapital |-> FALSE, requireNumber |-> FALSE, requireSpecial |-> FALSE,
   minCapitals |-> 0, minNumbers |-> 0, minSpecial |-> 0]

\* The requirements of SpecTiers: none, { requireNumber: true } and
\* { minCapitals: MaxMin }.
FewRequirements ==
  { Undefined,
    [NoRequirement EXCEPT !.requireNumber = TRUE],
    [NoRequirement EXCEPT !.minCapitals = MaxMin] }

(***************************************************************************)
(* The character classes of the regular expressions.                       *)
(***************************************************************************)
\* [a-z]
IsLowercase(ch) == ch >= 97 /\ ch <= 122

\* [A-Z]
IsUppercase(ch) == ch >= 65 /\ ch <= 90

\* [0-9]
IsNumber(ch) == ch >= 48 /\ ch <= 57

\* Faulty variant: only ASCII punctuation counts as a symbol.
IsSymbolAsciiOnly(ch) ==
  ch < 128 /\ ~((ch >= 65 /\ ch <= 90) \/ (ch >= 97 /\ ch <= 122) \/ (ch >= 48 /\ ch <= 57))

\* [^A-Za-z0-9]
IsSymbol(ch) ==
  ~((ch >= 65 /\ ch <= 90) \/ (ch >= 97 /\ ch <= 122) \/ (ch >= 48 /\ ch <= 57))

\* const contains = { lowercase: /[a-z]/.test(password), ... }
Contains(pw) ==
  [lowercase |-> \E i \in DOMAIN pw : IsLowercase(pw[i]),
   uppercase |-> \E i \in DOMAIN pw : IsUppercase(pw[i]),
   number    |-> \E i \in DOMAIN pw : IsNumber(pw[i]),
   symbol    |-> \E i \in DOMAIN pw : IsSymbol(pw[i])]

\* Faulty variant: match() without the g flag, which yields one match at most.
CountsFirstMatchOnly(pw) ==
  [lowercase |-> IF \E i \in DOMAIN pw : IsLowercase(pw[i]) THEN 1 ELSE 0,
   uppercase |-> IF \E i \in DOMAIN pw : IsUppercase(pw[i]) THEN 1 ELSE 0,
   numbers   |-> IF \E i \in DOMAIN pw : IsNumber(pw[i]) THEN 1 ELSE 0,
   special   |-> IF \E i \in DOMAIN pw : IsSymbol(pw[i]) THEN 1 ELSE 0]

\* const counts = { lowercase: (password.match(/[a-z]/g) || []).length, ... }
Counts(pw) ==
  [lowercase |-> Cardinality({i \in DOMAIN pw : IsLowercase(pw[i])}),
   uppercase |-> Cardinality({i \in DOMAIN pw : IsUppercase(pw[i])}),
   numbers   |-> Cardinality({i \in DOMAIN pw : IsNumber(pw[i])}),
   special   |-> Cardinality({i \in DOMAIN pw : IsSymbol(pw[i])})]

(***************************************************************************)
(* The tier table.                                                         *)
(***************************************************************************)
\* Faulty variant: the Weak tier starts at length 6.
defaultOptionsWeakAtSix ==
  << [id |-> 0, value |-> "Too weak", minDiversity |-> 0, minLength |-> 0],
     [id |-> 1, value |-> "Weak",     minDiversity |-> 2, minLength |-> 6],
     [id |-> 2, value |-> "Medium",   minDiversity |-> 4, minLength |-> 10],
     [id |-> 3, value |-> "Strong",   minDiversity |-> 4, minLength |-> 12] >>

defaultOptions ==
  << [id |-> 0, value |-> "Too weak", minDiversity |-> 0, minLength |-> 0],
     [id |-> 1, value |-> "Weak",     minDiversity |-> 2, minLength |-> 8],
     [id |-> 2, value |-> "Medium",   minDiversity |-> 4, minLength |-> 10],
     [id |-> 3, value |-> "Strong",   minDiversity |-> 4, minLength |-> 12] >>

\* The ids and labels a PasswordOption may carry.
TierValue == <<"Too weak", "Weak", "Medium", "Strong">>

\* The <<minLength, minDiversity>> pairs of the custom tiers: (3, 1) and
\* (2, 2) are not nested, (0, 0) is what a valid table starts with.
Thresholds == {<<0, 0>>, <<3, 1>>, <<2, 2>>}

\* The table with these thresholds, ids ascending from 0.
Table(ths) ==
  [i \in DOMAIN ths |->
     [id |-> i - 1, value |-> TierValue[i], minDiversity |-> ths[i][2],
      minLength |-> ths[i][1]]]

\* Every non-empty table over Thresholds, valid (tier 0 is (0, 0)) or not.
TierTables ==
  {Table(ths) : ths \in UNION {[1..n -> Thresholds] : n \in DOMAIN TierValue}}

\* The tables of SpecRequirements.
RequirementTables == {defaultOptions, Table(<<<<0, 0>>, <<2, 2>>, <<3, 1>>>>)}

\* Faulty variant: the length has to equal the tier's minimum.
QualifiesExactLength(opt, length, varietyCount) ==
  length = opt.minLength /\ varietyCount >= opt.minDiversity

\* (opt) => length >= opt.minLength && varietyCount >= opt.minDiversity
Qualifies(opt, length, varietyCount) ==
  length >= opt.minLength /\ varietyCount >= opt.minDiversity

\* Faulty variant: findLastIndex in place of findIndex.
FindLastIndex(opts, length, varietyCount) ==
  LET hits == {i \in DOMAIN opts : length >= opts[i].minLength
                                     /\ varietyCount >= opts[i].minDiversity}
  IN  IF hits = {} THEN -1
      ELSE (CHOOSE i \in hits : \A j \in hits : i >= j) - 1

\* options.findIndex(...): the 0-based index of the first tier that
\* qualifies, -1 when there is none.
FindIndex(opts, length, varietyCount) ==
  LET hits == {i \in DOMAIN opts : Qualifies(opts[i], length, varietyCount)}
  IN  IF hits = {} THEN -1
      ELSE (CHOOSE i \in hits : \A j \in hits : i <= j) - 1

\* Faulty variant: the walk does not move on to a tier whose thresholds are
\* identical to those of the current one.
RECURSIVE UpgradeKeepsLowestTie(_, _, _, _)
UpgradeKeepsLowestTie(opts, strengthLevel, length, varietyCount) ==
  IF /\ strengthLevel < Len(opts) - 1
     /\ length >= opts[strengthLevel + 2].minLength
     /\ varietyCount >= opts[strengthLevel + 2].minDiversity
     /\ ~(/\ strengthLevel >= 0
          /\ opts[strengthLevel + 2].minLength = opts[strengthLevel + 1].minLength
          /\ opts[strengthLevel + 2].minDiversity = opts[strengthLevel + 1].minDiversity)
  THEN UpgradeKeepsLowestTie(opts, strengthLevel + 1, length, varietyCount)
  ELSE strengthLevel

\* Faulty variant: the walk stops one tier before the end of the table.
RECURSIVE UpgradeStopsEarly(_, _, _, _)
UpgradeStopsEarly(opts, strengthLevel, length, varietyCount) ==
  IF /\ strengthLevel < Len(opts) - 2
     /\ length >= opts[strengthLevel + 2].minLength
     /\ varietyCount >= opts[strengthLevel + 2].minDiversity
  THEN UpgradeStopsEarly(opts, strengthLevel + 1, length, varietyCount)
  ELSE strengthLevel

\* while (strengthLevel < options.length - 1 && <tier strengthLevel + 1
\* qualifies>) strengthLevel++;   (strengthLevel is 0-based, opts 1-based)
RECURSIVE Upgrade(_, _, _, _)
Upgrade(opts, strengthLevel, length, varietyCount) ==
  IF /\ strengthLevel < Len(opts) - 1
     /\ Qualifies(opts[strengthLevel + 2], length, varietyCount)
  THEN Upgrade(opts, strengthLevel + 1, length, varietyCount)
  ELSE strengthLevel

\* Faulty variant: the fallback "if (strengthLevel === -1) strengthLevel = 0"
\* is missing.
StrengthLevelNoFallback(opts, length, varietyCount) ==
  LET found == FindIndex(opts, length, varietyCount)
  IN  IF found = -1 THEN -1 ELSE Upgrade(opts, found, length, varietyCount)

\* Lines 134-154: the index of the resolved tier.
StrengthLevel(opts, length, varietyCount) ==
  LET found == FindIndex(opts, length, varietyCount)
  IN  Upgrade(opts, IF found = -1 THEN 0 ELSE found, length, varietyCount)

\* Faulty variant: the minimums are tested before the boolean gates.
RequirementFailureMinimumsFirst(reqs, contains, counts) ==
  IF reqs = Undefined THEN "none"
  ELSE IF reqs.minCapitals # 0 /\ counts.uppercase < reqs.minCapitals THEN "minimum"
  ELSE IF reqs.minNumbers # 0 /\ counts.numbers < reqs.minNumbers THEN "minimum"
  ELSE IF reqs.minSpecial # 0 /\ counts.special < reqs.minSpecial THEN "minimum"
  ELSE IF reqs.requireCapital /\ ~contains.uppercase THEN "gate"
  ELSE IF reqs.requireNumber /\ ~contains.number THEN "gate"
  ELSE IF reqs.requireSpecial /\ ~contains.symbol THEN "gate"
  ELSE "none"

\* Faulty variant: minSpecial is tested against the presence of a symbol
\* instead of the number of symbols.
RequirementFailureSpecialPresence(reqs, contains, counts) ==
  IF reqs = Undefined THEN "none"
  ELSE IF reqs.requireCapital /\ ~contains.uppercase THEN "gate"
  ELSE IF reqs.requireNumber /\ ~contains.number THEN "gate"
  ELSE IF reqs.requireSpecial /\ ~contains.symbol THEN "gate"
  ELSE IF reqs.minCapitals # 0 /\ counts.uppercase < reqs.minCapitals THEN "minimum"
  ELSE IF reqs.minNumbers # 0 /\ counts.numbers < reqs.minNumbers THEN "minimum"
  ELSE IF reqs.minSpecial # 0 /\ ~contains.symbol THEN "minimum"
  ELSE "none"

\* Lines 117-132: "gate" when a boolean requirement fails first, "minimum"
\* when a minimum fails first, "none" when the requirements are met or
\* absent. A minimum of 0 is falsy, like one left out.
RequirementFailure(reqs, contains, counts) ==
  IF reqs = Undefined THEN "none"
  ELSE IF reqs.requireCapital /\ ~contains.uppercase THEN "gate"
  ELSE IF reqs.requireNumber /\ ~contains.number THEN "gate"
  ELSE IF reqs.requireSpecial /\ ~contains.symbol THEN "gate"
  ELSE IF reqs.minCapitals # 0 /\ counts.uppercase < reqs.minCapitals THEN "minimum"
  ELSE IF reqs.minNumbers # 0 /\ counts.numbers < reqs.minNumbers THEN "minimum"
  ELSE IF reqs.minSpecial # 0 /\ counts.special < reqs.minSpecial THEN "minimum"
  ELSE "none"

\* const { id, value } = options[strengthLevel]; return {...}: reading a
\* property of options[strengthLevel] throws a TypeError when the index is
\* outside the array.
Resolved(opts, strengthLevel, contains, length, counts) ==
  IF (strengthLevel + 1) \in DOMAIN opts
  THEN [id |-> opts[strengthLevel + 1].id, value |-> opts[strengthLevel + 1].value,
        contains |-> contains, length |-> length, counts |-> counts]
  ELSE [error |-> "TypeError"]

checkPasswordStrength(pw, reqs, opts) ==
  LET contains == Contains(pw)
      counts == Counts(pw)
      length == Len(pw)
      failure == RequirementFailure(reqs, contains, counts)
      varietyCount == Cardinality({k \in DOMAIN contains : contains[k]})
  IN  IF failure = "gate"
      THEN [id |-> 0, value |-> "Too weak", contains |-> contains, length |-> length]
      ELSE IF failure = "minimum"
      THEN [id |-> 0, value |-> "Too weak", contains |-> contains, length |-> length,
            counts |-> counts]
      ELSE Resolved(opts, StrengthLevel(opts, length, varietyCount), contains, length,
                    counts)

(***************************************************************************)
(* calculatePasswordEntropy. Numbers are fixed point: entropy is held in   *)
(* hundredths of a bit, which is what Math.round(entropy * 100) / 100      *)
(* leaves of it.                                                           *)
(***************************************************************************)
\* Math.log2(n) in millionths, rounded down, for the pool sizes the four
\* class sizes can add up to. With it EntropyHundredths equals the
\* double-precision result for every length up to 55.
Log2Micro(n) ==
  CASE n = 10 -> 3321928 [] n = 26 -> 4700439 [] n = 33 -> 5044394
    [] n = 36 -> 5169925 [] n = 43 -> 5426264 [] n = 52 -> 5700439
    [] n = 59 -> 5882643 [] n = 62 -> 5954196 [] n = 69 -> 6108524
    [] n = 85 -> 6409390 [] n = 95 -> 6569855

\* Faulty variant: the length factor is missing.
EntropyHundredthsNoLength(length, poolSize) ==
  LET x == Log2Micro(poolSize)
      a == x \div 10000
      b == x % 10000
      c == (a * 1045) \div 1000
      d == (a * 1045) % 1000
  IN  c + ((d * 10000 + b * 1045 + 5000000) \div 10000000)

\* Math.round(password.length * Math.log2(poolSize) * 1.045 * 100): the
\* product x * 1045 / 10^7 rounded half up, split so that no intermediate
\* value leaves 32 bits.
EntropyHundredths(length, poolSize) ==
  LET x == length * Log2Micro(poolSize)
      a == x \div 10000
      b == x % 10000
      c == (a * 1045) \div 1000
      d == (a * 1045) % 1000
  IN  c + ((d * 10000 + b * 1045 + 5000000) \div 10000000)

\* Faulty variant: the letters count 26 once, whatever their case.
PoolSizeLettersOnce(characterSets) ==
  (IF characterSets.lowercase \/ characterSets.uppercase THEN 26 ELSE 0)
  + (IF characterSets.numbers THEN 10 ELSE 0)
  + (IF characterSets.symbols THEN 33 ELSE 0)

\* let poolSize = 0; if (characterSets.lowercase) poolSize += 26; ...
PoolSize(characterSets) ==
  (IF characterSets.lowercase THEN 26 ELSE 0)
  + (IF characterSets.uppercase THEN 26 ELSE 0)
  + (IF characterSets.numbers THEN 10 ELSE 0)
  + (IF characterSets.symbols THEN 33 ELSE 0)

CharacterSets(pw) ==
  [lowercase |-> \E i \in DOMAIN pw : IsLowercase(pw[i]),
   uppercase |-> \E i \in DOMAIN pw : IsUppercase(pw[i]),
   numbers   |-> \E i \in DOMAIN pw : IsNumber(pw[i]),
   symbols   |-> \E i \in DOMAIN pw : IsSymbol(pw[i])]

calculatePasswordEntropy(pw) ==
  LET characterSets == CharacterSets(pw)
      poolSize == PoolSize(characterSets)
  IN  IF Len(pw) = 0
      THEN [entropy |-> 0, poolSize |-> 0, length |-> 0,
            characterSets |-> characterSets]
      ELSE [entropy |-> EntropyHundredths(Len(pw), poolSize), poolSize |-> poolSize,
            length |-> Len(pw), characterSets |-> characterSets]

(***************************************************************************)
(* estimateCrackTime. A JavaScript number that is not an entropy is held   *)
(* as a decimal floating-point value [m, e] standing for m * 10^e, with a  *)
(* mantissa of seven digits (1000000 <= m < 10000000, or m = 0 for zero),  *)
(* or as Infinity. Seven digits hold every threshold of formatTimeEstimate *)
(* exactly; products are truncated to seven digits.                        *)
(***************************************************************************)
Zero == [m |-> 0, e |-> 0]

Infinity == [infinite |-> TRUE]

IsFinite(x) == "infinite" \notin DOMAIN x

RECURSIVE Pow10(_)
Pow10(k) == IF k = 0 THEN 1 ELSE 10 * Pow10(k - 1)

\* m * 10^e with the mantissa brought to seven digits.
RECURSIVE Normal(_, _)
Normal(m, e) ==
  IF m = 0 THEN Zero
  ELSE IF m >= 10000000 THEN Normal(m \div 10, e + 1)
  ELSE IF m < 1000000 THEN Normal(m * 10, e - 1)
  ELSE [m |-> m, e |-> e]

\* 2^(f/100) in millionths, rounded down, for f = 0..99 (at index f + 1).
Pow2Hundredths ==
  <<
     1000000, 1006955, 1013959, 1021012, 1028113, 1035264, 1042465, 1049716, 1057018, 1064370,
     1071773, 1079228, 1086734, 1094293, 1101905, 1109569, 1117287, 1125058, 1132883, 1140763,
     1148698, 1156688, 1164733, 1172834, 1180992, 1189207, 1197478, 1205807, 1214194, 1222640,
     1231144, 1239707, 1248330, 1257013, 1265756, 1274560, 1283425, 1292352, 1301341, 1310393,
     1319507, 1328685, 1337927, 1347233, 1356604, 1366040, 1375541, 1385109, 1394743, 1404444,
     1414213, 1424050, 1433955, 1443929, 1453972, 1464085, 1474269, 1484523, 1494849, 1505246,
     1515716, 1526259, 1536875, 1547564, 1558329, 1569168, 1580082, 1591072, 1602139, 1613283,
     1624504, 1635804, 1647182, 1658639, 1670175, 1681792, 1693490, 1705269, 1717130, 1729074,
     1741101, 1753211, 1765405, 1777685, 1790050, 1802500, 1815038, 1827662, 1840375, 1853176,
     1866065, 1879045, 1892115, 1905275, 1918528, 1931872, 1945309, 1958840, 1972465, 1986184 >>

\* x doubled k times, seven doublings at a time while seven remain
\* (128 * m stays within 32 bits).
RECURSIVE Doubled(_, _)
Doubled(x, k) ==
  IF k = 0 THEN x
  ELSE LET factor == IF k >= 7 THEN 128 ELSE 2
           y == Normal(factor * x.m, x.e)
       IN  IF y.m > 0 THEN Doubled(y, k - (IF k >= 7 THEN 7 ELSE 1)) ELSE y

\* Math.pow(2, entropy), entropy in hundredths of a bit: 2^1024 and above
\* is Infinity in double precision.
Pow2(hundredths) ==
  IF hundredths >= 102400 THEN Infinity
  ELSE Doubled([m |-> Pow2Hundredths[(hundredths % 100) + 1], e |-> -6],
               hundredths \div 100)

\* guessesNeeded / (100 / 3600): 36 seconds a guess.
DividedByOnlineThrottling(x) == IF IsFinite(x) THEN Normal(36 * x.m, x.e) ELSE x

\* guessesNeeded / 10^k for the rates 10, 10000 and 10000000000.
DividedByPow10(x, k) ==
  IF IsFinite(x) /\ x.m # 0 THEN [m |-> x.m, e |-> x.e - k] ELSE x

\* seconds < 10^k
BelowPow10(x, k) == x.m = 0 \/ x.e + 7 <= k

\* Faulty variant: 200 years exactly already count as centuries.
AtLeastTwoHundredYears(x) == x.m # 0 /\ (x.e > 3 \/ (x.e = 3 /\ x.m >= 6307200))

\* seconds > 31536000 * 200  (= 6307200 * 10^3)
AboveTwoHundredYears(x) == x.m # 0 /\ (x.e > 3 \/ (x.e = 3 /\ x.m > 6307200))

units ==
  << [unit |-> "year",   seconds |-> 31536000],
     [unit |-> "month",  seconds |-> 2592000],
     [unit |-> "week",   seconds |-> 604800],
     [unit |-> "day",    seconds |-> 86400],
     [unit |-> "hour",   seconds |-> 3600],
     [unit |-> "minute", seconds |-> 60],
     [unit |-> "second", seconds |-> 1] >>

\* Math.floor(seconds / unitSeconds) for seconds of at most 200 years:
\* common factors of 10 are cancelled first, so that nothing leaves 32 bits.
RECURSIVE FloorQuotient(_, _, _)
FloorQuotient(m, e, unitSeconds) ==
  IF e > 0 /\ unitSeconds % 10 = 0 THEN FloorQuotient(m, e - 1, unitSeconds \div 10)
  ELSE IF e > 0 THEN (m * Pow10(e)) \div unitSeconds
  ELSE IF e <= -7 THEN 0
  ELSE (m \div Pow10(-e)) \div unitSeconds

\* Faulty variant: a value of which no unit has a whole multiple is given
\* in seconds instead of 'instantly'.
RECURSIVE FormatFromUnitNoFallback(_, _)
FormatFromUnitNoFallback(x, i) ==
  IF i > Len(units) THEN [value |-> 0, unit |-> "second", suffix |-> "s"]
  ELSE LET value == FloorQuotient(x.m, x.e, units[i].seconds)
       IN  IF value >= 1
           THEN [value |-> value, unit |-> units[i].unit,
                 suffix |-> IF value # 1 THEN "s" ELSE ""]
           ELSE FormatFromUnitNoFallback(x, i + 1)

\* for (const { unit, seconds: unitSeconds } of units) { ... }, from the
\* i-th unit on; the template string `${value} ${unit}${s}` is held as its
\* three parts.
RECURSIVE FormatFromUnit(_, _)
FormatFromUnit(x, i) ==
  IF i > Len(units) THEN [text |-> "instantly"]
  ELSE LET value == FloorQuotient(x.m, x.e, units[i].seconds)
       IN  IF value >= 1
           THEN [value |-> value, unit |-> units[i].unit,
                 suffix |-> IF value # 1 THEN "s" ELSE ""]
           ELSE FormatFromUnit(x, i + 1)

formatTimeEstimate(seconds, context) ==
  IF ~IsFinite(seconds) THEN [text |-> "centuries"]
  ELSE IF BelowPow10(seconds, IF context = "online" THEN -6 ELSE 0)
  THEN [text |-> "instantly"]
  ELSE IF AboveTwoHundredYears(seconds) THEN [text |-> "centuries"]
  ELSE FormatFromUnit(seconds, 1)

\* Lines 366-391: the estimates for an entropy that is not 0.
CrackTimes(entropyHundredths) ==
  LET guessesNeeded == Pow2(entropyHundredths)
      times ==
        [onlineThrottling100PerHour |-> DividedByOnlineThrottling(guessesNeeded),
         onlineNoThrottling10PerSecond |-> DividedByPow10(guessesNeeded, 1),
         offlineSlowHashing1e4PerSecond |-> DividedByPow10(guessesNeeded, 4),
         offlineFastHashing1e10PerSecond |-> DividedByPow10(guessesNeeded, 10)]
  IN  [onlineThrottling100PerHour |-> times.onlineThrottling100PerHour,
       onlineNoThrottling10PerSecond |-> times.onlineNoThrottling10PerSecond,
       offlineSlowHashing1e4PerSecond |-> times.offlineSlowHashing1e4PerSecond,
       offlineFastHashing1e10PerSecond |-> times.offlineFastHashing1e10PerSecond,
       timeToCrack |->
         [onlineThrottling |->
            formatTimeEstimate(times.onlineThrottling100PerHour, "online"),
          onlineNoThrottling |->
            formatTimeEstimate(times.onlineNoThrottling10PerSecond, "online"),
          offlineSlowHashing |->
            formatTimeEstimate(times.offlineSlowHashing1e4PerSecond, "offline"),
          offlineFastHashing |->
            formatTimeEstimate(times.offlineFastHashing1e10PerSecond, "offline")]]

\* Faulty variant: the entropy-0 case is not short-circuited.
estimateCrackTimeNoShortCircuit(pw) == CrackTimes(calculatePasswordEntropy(pw).entropy)

estimateCrackTime(pw) ==
  LET entropyHundredths == calculatePasswordEntropy(pw).entropy
  IN  IF entropyHundredths = 0
      THEN [onlineThrottling100PerHour |-> Zero,
            onlineNoThrottling10PerSecond |-> Zero,
            offlineSlowHashing1e4PerSecond |-> Zero,
            offlineFastHashing1e10PerSecond |-> Zero,
            timeToCrack |->
              [onlineThrottling |-> [text |-> "instantly"],
               onlineNoThrottling |-> [text |-> "instantly"],
               offlineSlowHashing |-> [text |-> "instantly"],
               offlineFastHashing |-> [text |-> "instantly"]]]
      ELSE CrackTimes(entropyHundredths)

(***************************************************************************)
(* analyzePasswordPatterns.                                                *)
(***************************************************************************)
\* String.prototype.toLowerCase on one code unit of Basic Latin or Latin-1
\* (the code units the pattern passwords are made of).
ToLower(c) ==
  IF c >= 65 /\ c <= 90 THEN c + 32
  ELSE IF c >= 192 /\ c <= 222 /\ c # 215 THEN c + 32
  ELSE c

\* Faulty variant: the password is matched as it was typed.
toLowerCaseOmitted(pw) == pw

\* password.toLowerCase()
toLowerCase(pw) == [i \in 1..Len(pw) |-> ToLower(pw[i])]

\* String.prototype.includes
Includes(s, sub) ==
  \E i \in 1..(Len(s) - Len(sub) + 1) : SubSeq(s, i, i + Len(sub) - 1) = sub

Least(S) == CHOOSE x \in S : \A y \in S : x <= y

KEYBOARD_PATTERNS ==
  << <<113, 119, 101, 114, 116, 121>>,
     <<97, 115, 100, 102, 103, 104>>,
     <<122, 120, 99, 118, 98, 110>>,
     <<113, 119, 101, 114, 116, 122>>,
     <<97, 122, 101, 114, 116, 121>>,
     <<49, 113, 97, 122>>,
     <<50, 119, 115, 120>>,
     <<51, 101, 100, 99>>,
     <<52, 114, 102, 118>>,
     <<53, 116, 103, 98>>,
     <<54, 121, 104, 110>>,
     <<55, 117, 106, 109>>,
     <<56, 105, 107, 44>>,
     <<57, 111, 108, 46>>,
     <<48, 112, 59, 47>>,
     <<113, 97, 122>>,
     <<119, 115, 120>>,
     <<101, 100, 99>>,
     <<114, 102, 118>>,
     <<116, 103, 98>>,
     <<121, 104, 110>>,
     <<117, 106, 109>>,
     <<105, 107, 44>>,
     <<111, 108, 46>>,
     <<112, 59, 47>> >>

alphabeticSeq == [i \in 1..26 |-> 96 + i]

numericSeq == [i \in 1..10 |-> 47 + i]

\* seq.substring(i, i + 3) for i from 0 while i < seq.length - 2
Substrings3(seq) == [i \in 1..(Len(seq) - 2) |-> SubSeq(seq, i, i + 2)]

\* for (const pattern of list) if (lower.includes(pattern)) { push; break }
\* : the description pushed, if any.
FirstIncluded(lower, list, kind) ==
  LET hits == {i \in 1..Len(list) : Includes(lower, list[i])}
  IN  IF hits = {} THEN <<>>
      ELSE << [kind |-> kind, text |-> list[Least(hits)]] >>

\* The code units that '.' does not match: LF, CR, LS, PS.
IsLineTerminator(c) == c \in {10, 13, 8232, 8233}

\* Positions where /(.)\1{2,}/ can start matching.
RepeatedStarts(lower) ==
  {i \in 1..(Len(lower) - 2) :
     /\ ~IsLineTerminator(lower[i])
     /\ lower[i + 1] = lower[i]
     /\ lower[i + 2] = lower[i]}

\* match[0] of /(.)\1{2,}/ : the leftmost match, extended greedily.
RepeatedMatch(lower) ==
  LET i == Least(RepeatedStarts(lower))
      j == CHOOSE k \in i..Len(lower) :
             /\ \A n \in i..k : lower[n] = lower[i]
             /\ (k = Len(lower) \/ lower[k + 1] # lower[i])
  IN  SubSeq(lower, i, j)

IsDigit(c) == c >= 48 /\ c <= 57

\* Positions where /(19|20)\d{2}/ can start matching.
DateStarts(lower) ==
  {i \in 1..(Len(lower) - 3) :
     /\ SubSeq(lower, i, i + 1) \in {<<49, 57>>, <<50, 48>>}
     /\ IsDigit(lower[i + 2])
     /\ IsDigit(lower[i + 3])}

DateMatch(lower) ==
  LET i == Least(DateStarts(lower)) IN SubSeq(lower, i, i + 3)

\* Faulty variant: every detector that fired adds its own weight, so the
\* letter detector and the number detector each add 25.
RiskScorePerDetector(keyboard, letters, numbers, repeated, date) ==
  (IF keyboard # <<>> THEN 30 ELSE 0) + (IF letters # <<>> THEN 25 ELSE 0)
    + (IF numbers # <<>> THEN 25 ELSE 0) + (IF repeated THEN 20 ELSE 0)
    + (IF date THEN 25 ELSE 0)

\* let riskScore = 0; if (result.hasKeyboardPattern) riskScore += 30; ...
RiskScore(keyboard, letters, numbers, repeated, date) ==
  (IF keyboard # <<>> THEN 30 ELSE 0)
    + (IF letters # <<>> \/ numbers # <<>> THEN 25 ELSE 0)
    + (IF repeated THEN 20 ELSE 0)
    + (IF date THEN 25 ELSE 0)

Min(a, b) == IF a <= b THEN a ELSE b

\* Faulty variant: the general suggestion is added from a score of 50 on.
SuggestionsFromFifty(keyboard, sequential, repeated, date, patternRiskScore) ==
           (IF keyboard
            THEN << "Avoid keyboard patterns like \"qwerty\" or \"asdfgh\"" >>
            ELSE <<>>)
             \o (IF sequential
                  THEN << "Avoid sequential characters like \"abc\" or \"123\"" >>
                  ELSE <<>>)
             \o (IF repeated
                  THEN << "Avoid repeating the same character multiple times" >>
                  ELSE <<>>)
             \o (IF date
                  THEN << "Avoid using years or dates that might be associated with you" >>
                  ELSE <<>>)
             \o (IF patternRiskScore >= 50
                  THEN << "Consider using a randomly generated password instead" >>
                  ELSE <<>>)

\* Lines 553-569: the suggestions, in the order in which they are pushed.
Suggestions(keyboard, sequential, repeated, date, patternRiskScore) ==
           (IF keyboard
            THEN << "Avoid keyboard patterns like \"qwerty\" or \"asdfgh\"" >>
            ELSE <<>>)
             \o (IF sequential
                  THEN << "Avoid sequential characters like \"abc\" or \"123\"" >>
                  ELSE <<>>)
             \o (IF repeated
                  THEN << "Avoid repeating the same character multiple times" >>
                  ELSE <<>>)
             \o (IF date
                  THEN << "Avoid using years or dates that might be associated with you" >>
                  ELSE <<>>)
             \o (IF patternRiskScore > 50
                  THEN << "Consider using a randomly generated password instead" >>
                  ELSE <<>>)

analyzePasswordPatterns(pw) ==
  LET lowerPassword == toLowerCase(pw)
      keyboard == FirstIncluded(lowerPassword, KEYBOARD_PATTERNS, "Keyboard pattern")
      letters == FirstIncluded(lowerPassword, Substrings3(alphabeticSeq),
                               "Sequential letters")
      numbers == FirstIncluded(lowerPassword, Substrings3(numericSeq),
                               "Sequential numbers")
      repeated == RepeatedStarts(lowerPassword) # {}
      date == DateStarts(lowerPassword) # {}
      patternRiskScore ==
        Min(100, RiskScore(keyboard, letters, numbers, repeated, date))
  IN  [hasKeyboardPattern |-> keyboard # <<>>,
       hasSequentialChars |-> letters # <<>> \/ numbers # <<>>,
       hasRepeatedChars |-> repeated,
       hasDatePattern |-> date,
       patternRiskScore |-> patternRiskScore,
       detectedPatterns |->
         keyboard \o letters \o numbers
           \o (IF repeated
                THEN << [kind |-> "Repeated characters",
                         text |-> RepeatedMatch(lowerPassword)] >>
                ELSE <<>>)
           \o (IF date
                THEN << [kind |-> "Possible date/year",
                         text |-> DateMatch(lowerPassword)] >>
                ELSE <<>>),
       suggestions |->
         Suggestions(keyboard # <<>>, letters # <<>> \/ numbers # <<>>, repeated,
                     date, patternRiskScore)]

(***************************************************************************)
(* isCommonPassword. commonPasswordsCache is a Map, held as a function     *)
(* whose domain is the set of keys present. A call of the async function   *)
(* is a record: it runs up to the await of the import, and is resumed when *)
(* the import settles.                                                     *)
(***************************************************************************)
EmptyMap == [k \in {} |-> {}]

\* commonPasswordsCache.has(key)
MapHas(map, key) == key \in DOMAIN map

\* Faulty variant: the map is replaced by one that holds the new entry only.
MapSetOnly(map, key, value) == [k \in {key} |-> value]

\* Faulty variant: writing a key that is present removes the entry.
MapSetOnce(map, key, value) ==
  IF key \in DOMAIN map THEN [k \in DOMAIN map \ {key} |-> map[k]]
  ELSE [k \in DOMAIN map \cup {key} |-> IF k = key THEN value ELSE map[k]]

\* commonPasswordsCache.set(key, value)
MapSet(map, key, value) ==
  [k \in DOMAIN map \cup {key} |-> IF k = key THEN value ELSE map[k]]

\* commonPasswordsCache.get(cacheKey)?.has(password) ?? false
Lookup(map, key, pw) == IF MapHas(map, key) THEN pw \in map[key] ELSE FALSE

\* The listSize argument left out (a string, like the sizes it stands among).
NoListSize == "undefined"

\* listSize = '100k' when the argument is left out.
CacheKey(listSize) == IF listSize = NoListSize THEN "100k" ELSE listSize

\* 'password123', '123456', 'vX9$mK2#pL5@nQ8&'
Words ==
  { <<112, 97, 115, 115, 119, 111, 114, 100, 49, 50, 51>>,
    <<49, 50, 51, 52, 53, 54>>,
    <<118, 88, 57, 36, 109, 75, 50, 35, 112, 76, 53, 64, 110, 81, 56, 38>> }

\* new Set(passwords.default) of ./data/common-passwords-<size>.json: the
\* content is fixed for a size, and the larger list holds the smaller.
PasswordList(size) ==
  IF size = "10k" THEN { <<112, 97, 115, 115, 119, 111, 114, 100, 49, 50, 51>> }
  ELSE { <<112, 97, 115, 115, 119, 111, 114, 100, 49, 50, 51>>,
         <<49, 50, 51, 52, 53, 54>> }

\* The call made with these arguments, run up to its first await or to its
\* return: a cache hit returns at once, a miss requests the import.
Called(map, pw, listSize) ==
  IF MapHas(map, CacheKey(listSize))
  THEN [password |-> pw, listSize |-> listSize, pc |-> "returned",
        imports |-> 0, import |-> "none",
        result |-> [value |-> Lookup(map, CacheKey(listSize), pw)]]
  ELSE [password |-> pw, listSize |-> listSize, pc |-> "importing",
        imports |-> 1, import |-> "pending", result |-> Undefined]

\* Faulty variant: no try/catch, the rejection of the import leaves the call.
RejectedUncaught(call) ==
  [call EXCEPT !.pc = "thrown", !.import = "rejected"]

\* catch (_error) { return false; }
Rejected(call) ==
  [call EXCEPT !.pc = "returned", !.import = "rejected",
               !.result = [value |-> FALSE]]

\* After commonPasswordsCache.set: the return statement of line 91.
Imported(map, call) ==
  [call EXCEPT !.pc = "returned", !.import = "resolved",
               !.result = [value |-> Lookup(map, CacheKey(call.listSize),
                                            call.password)]]

(***************************************************************************)
(* generatePassword. The options object holds the properties that were     *)
(* given; a property left out takes its default. Strings are sequences of  *)
(* code units.                                                             *)
(***************************************************************************)
\* generatePassword() and generatePassword({})
NoOptions == [k \in {} |-> TRUE]

DEFAULT_LENGTH == 16

LOWERCASE_CHARS == [i \in 1..26 |-> 96 + i]

UPPERCASE_CHARS == [i \in 1..26 |-> 64 + i]

NUMBER_CHARS == [i \in 1..10 |-> 47 + i]

\* '!@#$%^&*()_+-=[]{}|;:,.<>?'
SYMBOL_CHARS ==
  <<33, 64, 35, 36, 37, 94, 38, 42, 40, 41, 95, 43, 45, 61, 91, 93, 123, 125, 124, 59, 58, 44, 46, 60, 62, 63>>

\* Faulty variant: every digit counts as similar.
SimilarCharsWithAllDigits == {105, 108, 76, 73, 124, 96, 111, 79} \cup (48..57)

\* /[ilLI|`1oO0]/g
SIMILAR_CHARS == {105, 108, 76, 73, 124, 96, 49, 111, 79, 48}

\* /[{}[\]()\\'"~,;:<>]/g
AMBIGUOUS_CHARS == {123, 125, 91, 93, 40, 41, 92, 39, 34, 126, 44, 59, 58, 60, 62}

\* const { name = default } = options
Option(opts, name, default) == IF name \in DOMAIN opts THEN opts[name] ELSE default

\* chars.replace(regex, '') for a global character-class regex
Without(chars, class) == SelectSeq(chars, LAMBDA c : c \notin class)

\* Faulty variant: the ambiguous characters are never removed.
CharsKeepingAmbiguous(opts) ==
  LET included ==
        (IF Option(opts, "includeLowercase", TRUE) THEN LOWERCASE_CHARS ELSE <<>>)
          \o (IF Option(opts, "includeUppercase", TRUE) THEN UPPERCASE_CHARS ELSE <<>>)
          \o (IF Option(opts, "includeNumbers", TRUE) THEN NUMBER_CHARS ELSE <<>>)
          \o (IF Option(opts, "includeSymbols", TRUE) THEN SYMBOL_CHARS ELSE <<>>)
  IN  IF Option(opts, "excludeSimilarCharacters", FALSE)
      THEN Without(included, SIMILAR_CHARS) ELSE included

\* Lines 194-206: the character pool.
Chars(opts) ==
  LET included ==
        (IF Option(opts, "includeLowercase", TRUE) THEN LOWERCASE_CHARS ELSE <<>>)
          \o (IF Option(opts, "includeUppercase", TRUE) THEN UPPERCASE_CHARS ELSE <<>>)
          \o (IF Option(opts, "includeNumbers", TRUE) THEN NUMBER_CHARS ELSE <<>>)
          \o (IF Option(opts, "includeSymbols", TRUE) THEN SYMBOL_CHARS ELSE <<>>)
      similarRemoved ==
        IF Option(opts, "excludeSimilarCharacters", FALSE)
        THEN Without(included, SIMILAR_CHARS) ELSE included
  IN  IF Option(opts, "excludeAmbiguousCharacters", FALSE)
      THEN Without(similarRemoved, AMBIGUOUS_CHARS) ELSE similarRemoved

\* What the random source does when asked: it throws, or it fills the
\* buffer with the bytes first, first + step, first + 2 * step, ... (mod 256).
Throws == [throws |-> TRUE]

Fills(first, step) == [first |-> first, step |-> step]

\* randomBytes(size) of a source that fills: bytes[i] is at index i + 1.
randomBytes(source, size) ==
  [i \in 1..size |-> (source.first + source.step * (i - 1)) % 256]

\* (bytes[i] * 256 + bytes[i + 1]) % chars.length
RandomIndex(bytes, i, chars) == (bytes[i + 1] * 256 + bytes[i + 2]) % Len(chars)

\* The positions of the buffer read for each character: bytes[i] and
\* bytes[i + 1] in iteration i.
ByteReads(length) == [n \in 1..length |-> {n - 1, n}]

\* for (let i = 0; i < length; i++) password += chars[randomIndex]
PasswordFrom(bytes, length, chars) ==
  [n \in 1..length |-> chars[RandomIndex(bytes, n - 1, chars) + 1]]

\* Faulty variant: the random source is asked a second time after a failure.
CryptoFailureAfterRetry ==
  [error |-> "Crypto support is required for secure password generation",
   randomBytesCalls |-> 2, randomBytes |-> "threw"]

\* catch (_error) { throw new Error('Crypto support is required ...') }
CryptoFailure ==
  [error |-> "Crypto support is required for secure password generation",
   randomBytesCalls |-> 1, randomBytes |-> "threw"]

\* Lines 214-225, reached with a pool that is not empty. randomBytes throws
\* when the source does, and also (a RangeError) when the size is negative.
Drawn(opts, source) ==
  LET length == Option(opts, "length", DEFAULT_LENGTH)
  IN  IF source = Throws \/ length < 0 THEN CryptoFailure
      ELSE [password |-> PasswordFrom(randomBytes(source, length * 2), length,
                                      Chars(opts)),
            randomBytesCalls |-> 1, randomBytes |-> "returned",
            reads |-> ByteReads(length),
            randomIndexes |->
              [n \in 1..length |->
                 RandomIndex(randomBytes(source, length * 2), n - 1, Chars(opts))]]

\* Faulty variant: the random bytes are requested before the pool is examined.
generatePasswordDrawingFirst(opts, source) ==
  IF source = Throws \/ Option(opts, "length", DEFAULT_LENGTH) < 0 THEN CryptoFailure
  ELSE IF Chars(opts) = <<>>
  THEN [error |-> "At least one character set must be included in the password",
        randomBytesCalls |-> 1, randomBytes |-> "returned"]
  ELSE Drawn(opts, source)

generatePassword(opts, source) ==
  IF Chars(opts) = <<>>
  THEN [error |-> "At least one character set must be included in the password",
        randomBytesCalls |-> 0, randomBytes |-> "not called"]
  ELSE Drawn(opts, source)

(***************************************************************************)
(* Operations: each applies one function of the library to the inputs.     *)
(***************************************************************************)
CheckPasswordStrength ==
  /\ strength = Undefined
  /\ strength' = checkPasswordStrength(password, requirements, options)
  /\ UNCHANGED <<password, requirements, options, entropy, crackTime, patterns,
               commonPasswordsCache, calls, generationOptions, generated,
               formatSeconds, formatContext, formatted>>

CalculatePasswordEntropy ==
  /\ entropy = Undefined
  /\ entropy' = calculatePasswordEntropy(password)
  /\ UNCHANGED <<password, requirements, options, strength, crackTime, patterns,
               commonPasswordsCache, calls, generationOptions, generated,
               formatSeconds, formatContext, formatted>>

EstimateCrackTime ==
  /\ crackTime = Undefined
  /\ crackTime' = estimateCrackTime(password)
  /\ UNCHANGED <<password, requirements, options, strength, entropy, patterns,
               commonPasswordsCache, calls, generationOptions, generated,
               formatSeconds, formatContext, formatted>>

AnalyzePasswordPatterns ==
  /\ patterns = Undefined
  /\ patterns' = analyzePasswordPatterns(password)
  /\ UNCHANGED <<password, requirements, options, strength, entropy, crackTime,
               commonPasswordsCache, calls, generationOptions, generated,
               formatSeconds, formatContext, formatted>>

analysisVars ==
  <<password, requirements, options, strength, entropy, crackTime, patterns,
    formatSeconds, formatContext, formatted>>

commonVars == <<commonPasswordsCache, calls>>

generationVars == <<generationOptions, generated>>

ListSizes == {"10k", "100k"}

MaxCalls == 3

\* isCommonPassword(pw, listSize) is called.
IsCommonPassword(pw, listSize) ==
  /\ Len(calls) < MaxCalls
  /\ calls' = Append(calls, Called(commonPasswordsCache, pw, listSize))
  /\ UNCHANGED <<analysisVars, commonPasswordsCache, generationVars>>

\* The import awaited by call c is fulfilled: the list is stored and looked up.
ImportFulfilled(c) ==
  /\ calls[c].pc = "importing"
  /\ commonPasswordsCache' =
       MapSet(commonPasswordsCache, CacheKey(calls[c].listSize),
              PasswordList(CacheKey(calls[c].listSize)))
  /\ calls' = [calls EXCEPT ![c] = Imported(commonPasswordsCache', calls[c])]
  /\ UNCHANGED <<analysisVars, generationVars>>

\* Faulty variant: a rejected import leaves an empty set in the cache.
ImportRejectedCachingEmpty(c) ==
  /\ calls[c].pc = "importing"
  /\ commonPasswordsCache' =
       MapSet(commonPasswordsCache, CacheKey(calls[c].listSize), {})
  /\ calls' = [calls EXCEPT ![c] = Rejected(calls[c])]
  /\ UNCHANGED <<analysisVars, generationVars>>

\* The import awaited by call c is rejected (or the Set cannot be built).
ImportRejected(c) ==
  /\ calls[c].pc = "importing"
  /\ calls' = [calls EXCEPT ![c] = Rejected(calls[c])]
  /\ UNCHANGED <<analysisVars, commonPasswordsCache, generationVars>>

\* generatePassword(generationOptions) with a random source that behaves
\* as given.
GeneratePassword(source) ==
  /\ generated = Undefined
  /\ generated' = generatePassword(generationOptions, source)
  /\ UNCHANGED <<analysisVars, commonVars, generationOptions>>

\* formatTimeEstimate(formatSeconds, formatContext)
FormatTimeEstimate ==
  /\ formatted = Undefined
  /\ formatted' = formatTimeEstimate(formatSeconds, formatContext)
  /\ UNCHANGED <<password, requirements, options, strength, entropy, crackTime,
                 patterns, commonVars, generationVars, formatSeconds, formatContext>>

(***************************************************************************)
(* Specifications.                                                         *)
(***************************************************************************)
\* The default tier table and no requirements, passwords long enough for
\* every default tier.
InitDefault ==
  /\ password \in Passwords(FreeLen, MaxLen)
  /\ requirements = Undefined
  /\ options = defaultOptions
  /\ strength = Undefined
  /\ entropy = Undefined
  /\ crackTime = Undefined
  /\ patterns = Undefined
  /\ commonPasswordsCache = EmptyMap
  /\ calls = <<>>
  /\ generationOptions = NoOptions
  /\ generated = Undefined
  /\ formatSeconds = Zero
  /\ formatContext = "online"
  /\ formatted = Undefined

NextDefault == CheckPasswordStrength \/ CalculatePasswordEntropy \/ EstimateCrackTime

SpecDefault == InitDefault /\ [][NextDefault]_vars

\* Every requirements object, over two tier tables.
InitRequirements ==
  /\ password \in Passwords(ShortFree, ShortMax)
  /\ requirements \in RequirementSets \cup {Undefined}
  /\ options \in RequirementTables
  /\ strength = Undefined
  /\ entropy = Undefined
  /\ crackTime = Undefined
  /\ patterns = Undefined
  /\ commonPasswordsCache = EmptyMap
  /\ calls = <<>>
  /\ generationOptions = NoOptions
  /\ generated = Undefined
  /\ formatSeconds = Zero
  /\ formatContext = "online"
  /\ formatted = Undefined

NextRequirements == CheckPasswordStrength

SpecRequirements == InitRequirements /\ [][NextRequirements]_vars

\* Every tier table, over a few requirements objects.
InitTiers ==
  /\ password \in Passwords(ShortFree, ShortMax)
  /\ requirements \in FewRequirements
  /\ options \in TierTables
  /\ strength = Undefined
  /\ entropy = Undefined
  /\ crackTime = Undefined
  /\ patterns = Undefined
  /\ commonPasswordsCache = EmptyMap
  /\ calls = <<>>
  /\ generationOptions = NoOptions
  /\ generated = Undefined
  /\ formatSeconds = Zero
  /\ formatContext = "online"
  /\ formatted = Undefined

NextTiers == CheckPasswordStrength

SpecTiers == InitTiers /\ [][NextTiers]_vars

\* Pattern analysis: passwords are put together from a few pieces, among
\* them pieces of the patterns that the detectors look for.
MaxPieces == 3

Pieces ==
  { <<97>>,
    <<98>>,
    <<99>>,
    <<65>>,
    <<49>>,
    <<50>>,
    <<51>>,
    <<48>>,
    <<57>>,
    <<10>>,
    <<113, 97, 122>>,
    <<81, 87, 69, 82, 84, 89>>,
    <<49, 57>>,
    <<50, 48, 48, 48>>,
    <<49, 50, 51>> }

RECURSIVE Concatenations(_)
Concatenations(n) ==
  IF n = 0 THEN {<<>>}
  ELSE LET shorter == Concatenations(n - 1)
       IN  shorter \cup {u \o p : u \in shorter, p \in Pieces}

\* 'qwerty111', 'qwerty123', 'Password123!', 'abc123', 'aaa111'
PatternScenarios ==
  { <<113, 119, 101, 114, 116, 121, 49, 49, 49>>,
    <<113, 119, 101, 114, 116, 121, 49, 50, 51>>,
    <<80, 97, 115, 115, 119, 111, 114, 100, 49, 50, 51, 33>>,
    <<97, 98, 99, 49, 50, 51>>,
    <<97, 97, 97, 49, 49, 49>> }

InitPatterns ==
  /\ password \in Concatenations(MaxPieces) \cup PatternScenarios
  /\ requirements = Undefined
  /\ options = defaultOptions
  /\ strength = Undefined
  /\ entropy = Undefined
  /\ crackTime = Undefined
  /\ patterns = Undefined
  /\ commonPasswordsCache = EmptyMap
  /\ calls = <<>>
  /\ generationOptions = NoOptions
  /\ generated = Undefined
  /\ formatSeconds = Zero
  /\ formatContext = "online"
  /\ formatted = Undefined

NextPatterns == AnalyzePasswordPatterns

SpecPatterns == InitPatterns /\ [][NextPatterns]_vars

InitCommon ==
  /\ password = <<>>
  /\ requirements = Undefined
  /\ options = defaultOptions
  /\ strength = Undefined
  /\ entropy = Undefined
  /\ crackTime = Undefined
  /\ patterns = Undefined
  /\ commonPasswordsCache = EmptyMap
  /\ calls = <<>>
  /\ generationOptions = NoOptions
  /\ generated = Undefined
  /\ formatSeconds = Zero
  /\ formatContext = "online"
  /\ formatted = Undefined

NextCommon ==
  \/ \E pw \in Words, listSize \in ListSizes \cup {NoListSize} :
       IsCommonPassword(pw, listSize)
  \/ \E c \in 1..Len(calls) : ImportFulfilled(c)
  \/ \E c \in 1..Len(calls) : ImportRejected(c)

SpecCommon == InitCommon /\ [][NextCommon]_vars

\* Password generation: every choice of given and omitted options.
MaxLength == 3

OptionNames ==
  {"length", "includeUppercase", "includeLowercase", "includeNumbers",
   "includeSymbols", "excludeSimilarCharacters", "excludeAmbiguousCharacters"}

\* The values (and the types) of the options when all are given.
FullOptions ==
  [length : -1..MaxLength,
   includeUppercase : BOOLEAN, includeLowercase : BOOLEAN,
   includeNumbers : BOOLEAN, includeSymbols : BOOLEAN,
   excludeSimilarCharacters : BOOLEAN, excludeAmbiguousCharacters : BOOLEAN]

GenerationOptions ==
  {[k \in given |-> full[k]] : given \in SUBSET OptionNames, full \in FullOptions}

FirstBytes == {0, 3, 255}

Steps == {0, 1, 97}

RandomSources == {Throws} \cup {Fills(first, step) : first \in FirstBytes, step \in Steps}

InitGeneration ==
  /\ password = <<>>
  /\ requirements = Undefined
  /\ options = defaultOptions
  /\ strength = Undefined
  /\ entropy = Undefined
  /\ crackTime = Undefined
  /\ patterns = Undefined
  /\ commonPasswordsCache = EmptyMap
  /\ calls = <<>>
  /\ generationOptions \in GenerationOptions
  /\ generated = Undefined
  /\ formatSeconds = Zero
  /\ formatContext = "online"
  /\ formatted = Undefined

NextGeneration == \E source \in RandomSources : GeneratePassword(source)

SpecGeneration == InitGeneration /\ [][NextGeneration]_vars

\* Time formatting: seconds values around every threshold and unit, over a
\* range of magnitudes.
MaxExponent == 4

Mantissas ==
  {1000000, 1000001, 1999999, 2000000, 2592000, 2591999, 3153600, 3153599,
   3600000, 3599999, 5000000, 5999999, 6000000, 6048000, 6047999, 6307200,
   6307201, 8640000, 8639999, 9999999}

SecondsValues ==
  {Infinity, Zero} \cup {[m |-> m, e |-> e] : m \in Mantissas, e \in (-14)..MaxExponent}

InitFormat ==
  /\ password = <<>>
  /\ requirements = Undefined
  /\ options = defaultOptions
  /\ strength = Undefined
  /\ entropy = Undefined
  /\ crackTime = Undefined
  /\ patterns = Undefined
  /\ commonPasswordsCache = EmptyMap
  /\ calls = <<>>
  /\ generationOptions = NoOptions
  /\ generated = Undefined
  /\ formatSeconds \in SecondsValues
  /\ formatContext \in {"online", "offline"}
  /\ formatted = Undefined

NextFormat == FormatTimeEstimate

SpecFormat == InitFormat /\ [][NextFormat]_vars

(***************************************************************************)
(* The vocabulary of the properties, stated over code units and            *)
(* independently of the definitions above.                                 *)
(***************************************************************************)
LowerLetters == 97..122

UpperLetters == 65..90

Digits == 48..57

AlphaNumerics == LowerLetters \cup UpperLetters \cup Digits

Occurs(pw, S) == \E i \in 1..Len(pw) : pw[i] \in S

OccursOutside(pw, S) == \E i \in 1..Len(pw) : pw[i] \notin S

NumberIn(pw, S) == Len(SelectSeq(pw, LAMBDA ch : ch \in S))

NumberOutside(pw, S) == Len(SelectSeq(pw, LAMBDA ch : ch \notin S))

\* The character classes present, as flags in the order lowercase,
\* uppercase, digit, symbol.
Classes(pw) ==
  <<Occurs(pw, LowerLetters), Occurs(pw, UpperLetters), Occurs(pw, Digits),
    OccursOutside(pw, AlphaNumerics)>>

Diversity(pw) == Cardinality({k \in 1..4 : Classes(pw)[k]})

\* Some requirement of reqs is not met by pw.
Unmet(reqs, pw) ==
  /\ reqs # Undefined
  /\ \/ reqs.requireCapital /\ ~Occurs(pw, UpperLetters)
     \/ reqs.requireNumber /\ ~Occurs(pw, Digits)
     \/ reqs.requireSpecial /\ ~OccursOutside(pw, AlphaNumerics)
     \/ reqs.minCapitals > NumberIn(pw, UpperLetters)
     \/ reqs.minNumbers > NumberIn(pw, Digits)
     \/ reqs.minSpecial > NumberOutside(pw, AlphaNumerics)

\* Tier 0 of the table has minLength 0 and minDiversity 0.
ValidTable(opts) == opts[1].minLength = 0 /\ opts[1].minDiversity = 0

\* The tiers of the table whose two thresholds pw meets (1-based).
QualifyingTiers(opts, pw) ==
  {i \in 1..Len(opts) : Len(pw) >= opts[i].minLength
                        /\ Diversity(pw) >= opts[i].minDiversity}

StrengthDone == strength # Undefined

EntropyDone == entropy # Undefined

(***************************************************************************)
(* Properties.                                                             *)
(***************************************************************************)
\* C1: with the default table and no requirements, a password shorter than
\* 8 or with fewer than 2 classes is id 0 / 'Too weak', and one with length
\* >= 8 and >= 2 classes that is not (length >= 10 with all 4 classes) is
\* id 1 / 'Weak'.
C1_TooWeakAndWeak ==
  StrengthDone =>
    LET len == Len(password)
        div == Diversity(password)
    IN  /\ (len < 8 \/ div < 2)
           => strength.id = 0 /\ strength.value = "Too weak"
        /\ (len >= 8 /\ div >= 2 /\ ~(len >= 10 /\ div = 4))
           => strength.id = 1 /\ strength.value = "Weak"

\* A password of 10 or more code units with three classes that resolved to Weak.
C1_Witness ==
  /\ StrengthDone
  /\ Len(password) >= 10
  /\ Diversity(password) = 3
  /\ strength.id = 1

C3_UnmetRequirementIsTierZero ==
  (StrengthDone /\ Unmet(requirements, password)) => strength.id = 0

\* Only minSpecial fails (one symbol where two are asked for), on a password
\* that resolves above tier 0 without the requirements.
C3_Witness ==
  /\ StrengthDone
  /\ requirements # Undefined
  /\ NumberOutside(password, AlphaNumerics) = 1
  /\ requirements.minSpecial = 2
  /\ ~requirements.requireCapital /\ ~requirements.requireNumber
  /\ requirements.minCapitals = 0 /\ requirements.minNumbers = 0
  /\ checkPasswordStrength(password, Undefined, options).id > 0
  /\ strength.id = 0

\* C4: on every return path the contains flags say which classes occur:
\* lowercase iff a code unit in a-z, uppercase iff one in A-Z, number iff
\* one in 0-9, symbol iff one outside [A-Za-z0-9], non-ASCII included.
C4_ContainsFlags ==
  StrengthDone =>
    /\ strength.contains.lowercase <=> Occurs(password, LowerLetters)
    /\ strength.contains.uppercase <=> Occurs(password, UpperLetters)
    /\ strength.contains.number <=> Occurs(password, Digits)
    /\ strength.contains.symbol <=> OccursOutside(password, AlphaNumerics)
    /\ DOMAIN strength.contains = {"lowercase", "uppercase", "number", "symbol"}

\* A requirement failed on a password whose only symbol is U+00E9, and the
\* result flags a symbol.
C4_Witness ==
  /\ StrengthDone
  /\ Unmet(requirements, password)
  /\ Occurs(password, {233})
  /\ ~OccursOutside(password, AlphaNumerics \cup {233})
  /\ strength.contains.symbol
  /\ strength.id = 0

C6_MonotoneInLength ==
  (StrengthDone /\ ValidTable(options)) =>
    \A k \in 0..(Len(password) - 1) :
      LET shorter == SubSeq(password, 1, k)
      IN  Classes(shorter) = Classes(password)
            => checkPasswordStrength(shorter, requirements, options).id <= strength.id

\* Under a requirements object, a prefix with the same classes resolved
\* strictly lower than the password.
C6_Witness ==
  /\ StrengthDone
  /\ ValidTable(options)
  /\ requirements # Undefined
  /\ \E k \in 1..(Len(password) - 1) :
       /\ Classes(SubSeq(password, 1, k)) = Classes(password)
       /\ checkPasswordStrength(SubSeq(password, 1, k), requirements, options).id
            < strength.id

\* C7 as stated: for every table whose tier 0 has minLength 0 and
\* minDiversity 0, with or without requirements, the empty password gives
\* id 0, length 0 and diversity 0.
C7_EmptyIsTierZero ==
  (StrengthDone /\ password = <<>> /\ ValidTable(options)) =>
    /\ strength.id = 0
    /\ strength.length = 0
    /\ \A k \in DOMAIN strength.contains : ~strength.contains[k]

\* C7 amended: the same, for the tables whose tier 1, if there is one, has a
\* positive minLength or a positive minDiversity.
C7_EmptyIsTierZeroUnlessTierOneIsFree ==
  (/\ StrengthDone
   /\ password = <<>>
   /\ ValidTable(options)
   /\ Len(options) >= 2 => (options[2].minLength > 0 \/ options[2].minDiversity > 0))
  =>
    /\ strength.id = 0
    /\ strength.length = 0
    /\ \A k \in DOMAIN strength.contains : ~strength.contains[k]

\* The empty password, no requirements, and a table whose tier 2 has the
\* thresholds 0/0 behind a tier 1 that does not: the result is tier 0.
C7_Witness ==
  /\ StrengthDone
  /\ password = <<>>
  /\ requirements = Undefined
  /\ ValidTable(options)
  /\ Len(options) >= 3
  /\ options[2].minLength > 0
  /\ options[3].minLength = 0 /\ options[3].minDiversity = 0
  /\ strength.id = 0

\* C8: the call never fails; the resolved index stays within the table, the
\* result is one of the table's tiers or the fixed tier-0 result of a failed
\* requirement, and when no tier qualifies the result is the first tier.
C8_Total ==
  StrengthDone =>
    /\ "error" \notin DOMAIN strength
    /\ DOMAIN strength \in {{"id", "value", "contains", "length"},
                            {"id", "value", "contains", "length", "counts"}}
    /\ StrengthLevel(options, Len(password), Diversity(password)) \in 0..(Len(options) - 1)
    /\ \/ \E i \in 1..Len(options) :
            strength.id = options[i].id /\ strength.value = options[i].value
       \/ Unmet(requirements, password) /\ strength.id = 0 /\ strength.value = "Too weak"
    /\ QualifyingTiers(options, password) = {}
         => strength.id = options[1].id /\ strength.value = options[1].value

\* No tier of a table of two or more tiers qualifies, the requirements are
\* met, and the result is the first tier.
C8_Witness ==
  /\ StrengthDone
  /\ Len(options) >= 2
  /\ QualifyingTiers(options, password) = {}
  /\ ~Unmet(requirements, password)
  /\ strength.id = options[1].id

\* C9: when a requirement fails, the result still carries the counts object
\* with the four per-class occurrence counts.
C9_CountsOnFailure ==
  (StrengthDone /\ Unmet(requirements, password)) =>
    /\ "counts" \in DOMAIN strength
    /\ strength.counts =
         [lowercase |-> NumberIn(password, LowerLetters),
          uppercase |-> NumberIn(password, UpperLetters),
          numbers   |-> NumberIn(password, Digits),
          special   |-> NumberOutside(password, AlphaNumerics)]

\* The passwords entropy is compared over: the prefixes of pw and the
\* passwords of the tests and the README.
ComparedWith(pw) == {SubSeq(pw, 1, k) : k \in 0..Len(pw)} \cup Scenarios

\* C10: the entropy is 0 iff the password is empty, and of two passwords
\* with the same pool size the longer has the strictly larger entropy.
C10_EntropyZeroAndIncreasing ==
  EntropyDone =>
    /\ (entropy.entropy = 0) <=> (Len(password) = 0)
    /\ \A other \in ComparedWith(password) :
         LET e == calculatePasswordEntropy(other)
         IN  e.poolSize = entropy.poolSize =>
               /\ Len(other) < Len(password) => e.entropy < entropy.entropy
               /\ Len(other) > Len(password) => e.entropy > entropy.entropy

\* A password over all four classes (pool 95) with a shorter non-empty
\* prefix of the same pool size and smaller entropy.
C10_Witness ==
  /\ EntropyDone
  /\ entropy.poolSize = 95
  /\ \E k \in 1..(Len(password) - 1) :
       LET e == calculatePasswordEntropy(SubSeq(password, 1, k))
       IN  e.poolSize = 95 /\ e.entropy > 0 /\ e.entropy < entropy.entropy

\* Tiers i and j of the table have the same two thresholds.
SameThresholds(opts, i, j) ==
  opts[i].minLength = opts[j].minLength /\ opts[i].minDiversity = opts[j].minDiversity

\* C18: for every valid table and every password that passes the
\* requirements, the result is the tier with the largest id among all the
\* tiers whose minLength and minDiversity the password meets.
C18_HighestQualifyingTier ==
  (StrengthDone /\ ValidTable(options) /\ ~Unmet(requirements, password)) =>
    LET top == CHOOSE i \in QualifyingTiers(options, password) :
                 \A j \in QualifyingTiers(options, password) : j <= i
    IN  strength.id = options[top].id /\ strength.value = options[top].value

\* C19 as stated: the result is never a tier that has a tier of lower id
\* with identical thresholds the password meets (the lowest id of identical
\* tiers wins).
C19_LowestIdOfIdenticalTiers ==
  (StrengthDone /\ ~Unmet(requirements, password)) =>
    \A j \in QualifyingTiers(options, password) :
      (\E i \in 1..(j - 1) : SameThresholds(options, i, j))
        => strength.id # options[j].id

\* C19 amended: the result is never a tier the password meets that is
\* directly followed by a tier with identical thresholds: of adjacent
\* identical tiers the walk resolves to the last one, or moves beyond them.
C19_LastOfAdjacentIdenticalTiers ==
  (StrengthDone /\ ~Unmet(requirements, password)) =>
    \A i \in QualifyingTiers(options, password) :
      (i < Len(options) /\ SameThresholds(options, i, i + 1))
        => strength.id # options[i].id

\* The password meets two adjacent tiers with the identical thresholds (2, 2)
\* and resolves to the second of them.
C19_Witness ==
  /\ StrengthDone
  /\ ~Unmet(requirements, password)
  /\ \E j \in QualifyingTiers(options, password) :
       /\ j >= 2
       /\ SameThresholds(options, j - 1, j)
       /\ options[j].minLength = 2
       /\ strength.id = options[j].id

\* Some boolean gate of reqs fails on pw.
GateFails(reqs, pw) ==
  /\ reqs # Undefined
  /\ \/ reqs.requireCapital /\ ~Occurs(pw, UpperLetters)
     \/ reqs.requireNumber /\ ~Occurs(pw, Digits)
     \/ reqs.requireSpecial /\ ~OccursOutside(pw, AlphaNumerics)

\* Some minimum of reqs fails on pw.
MinimumFails(reqs, pw) ==
  /\ reqs # Undefined
  /\ \/ reqs.minCapitals > NumberIn(pw, UpperLetters)
     \/ reqs.minNumbers > NumberIn(pw, Digits)
     \/ reqs.minSpecial > NumberOutside(pw, AlphaNumerics)

CrackTimeDone == crackTime # Undefined

\* C11: for the empty password estimateCrackTime gives 0 for all four raw
\* estimates and 'instantly' for all four timeToCrack strings.
C11_EmptyPasswordIsInstant ==
  (CrackTimeDone /\ password = <<>>) =>
    /\ crackTime.onlineThrottling100PerHour = Zero
    /\ crackTime.onlineNoThrottling10PerSecond = Zero
    /\ crackTime.offlineSlowHashing1e4PerSecond = Zero
    /\ crackTime.offlineFastHashing1e10PerSecond = Zero
    /\ DOMAIN crackTime.timeToCrack =
         {"onlineThrottling", "onlineNoThrottling", "offlineSlowHashing",
          "offlineFastHashing"}
    /\ \A k \in DOMAIN crackTime.timeToCrack :
         crackTime.timeToCrack[k] = [text |-> "instantly"]

\* estimateCrackTime has run on the empty password.
C11_Witness ==
  /\ CrackTimeDone
  /\ password = <<>>
  /\ crackTime.timeToCrack.onlineThrottling = [text |-> "instantly"]
  /\ crackTime.onlineThrottling100PerHour = Zero

PatternsDone == patterns # Undefined

\* The pattern descriptions of one category.
OfCategory(category) ==
  CASE category = "keyboard" -> {"Keyboard pattern"}
    [] category = "sequential" -> {"Sequential letters", "Sequential numbers"}
    [] category = "repeated" -> {"Repeated characters"}
    [] category = "date" -> {"Possible date/year"}

\* A pattern of the category was found (and described).
Found(category) ==
  \E i \in 1..Len(patterns.detectedPatterns) :
    patterns.detectedPatterns[i].kind \in OfCategory(category)

Weight(category) ==
  CASE category = "keyboard" -> 30
    [] category = "sequential" -> 25
    [] category = "repeated" -> 20
    [] category = "date" -> 25

WeightIfFound(category) == IF Found(category) THEN Weight(category) ELSE 0

C13_LoadFailureIsFalse ==
  \A c \in 1..Len(calls) :
    /\ calls[c].pc \in {"importing", "returned"}
    /\ calls[c].import = "rejected" =>
         /\ calls[c].pc = "returned"
         /\ calls[c].result = [value |-> FALSE]

\* A call for a password of the list has had its import rejected.
C13_Witness ==
  \E c \in 1..Len(calls) :
    /\ calls[c].import = "rejected"
    /\ calls[c].password \in PasswordList(CacheKey(calls[c].listSize))
    /\ calls[c].result = [value |-> FALSE]

\* C14: once the list of a size is loaded, the cached set is never changed
\* or removed, and every call made afterwards for that size requests no
\* import and returns true exactly for the members of the list.
C14_LoadOnceReuse ==
  [][\A size \in DOMAIN commonPasswordsCache :
       /\ commonPasswordsCache[size] = PasswordList(size)
       /\ size \in DOMAIN commonPasswordsCache'
       /\ commonPasswordsCache'[size] = commonPasswordsCache[size]
       /\ (Len(calls') = Len(calls) + 1 /\ CacheKey(calls'[Len(calls')].listSize) = size)
            => LET call == calls'[Len(calls')]
               IN  /\ call.pc = "returned"
                   /\ call.imports = 0
                   /\ call.result = [value |-> call.password \in PasswordList(size)]
    ]_vars

\* A call has loaded a list, and a later call for the same size has
\* answered true from the cache for a member of the list.
C14_Witness ==
  \E c, d \in 1..Len(calls) :
    /\ c < d
    /\ CacheKey(calls[c].listSize) = CacheKey(calls[d].listSize)
    /\ calls[c].import = "resolved"
    /\ calls[d].pc = "returned"
    /\ calls[d].imports = 0
    /\ calls[d].result = [value |-> TRUE]
    /\ Cardinality(DOMAIN commonPasswordsCache) = 2

GenerateDone == generated # Undefined

Returned == GenerateDone /\ "password" \in DOMAIN generated

\* The characters that the options admit: those of the included classes,
\* less the similar and the ambiguous ones when these are excluded.
Admitted(opts) ==
  (((IF Option(opts, "includeLowercase", TRUE) THEN LowerLetters ELSE {})
      \cup (IF Option(opts, "includeUppercase", TRUE) THEN UpperLetters ELSE {})
      \cup (IF Option(opts, "includeNumbers", TRUE) THEN Digits ELSE {})
      \cup (IF Option(opts, "includeSymbols", TRUE)
            THEN {SYMBOL_CHARS[i] : i \in DOMAIN SYMBOL_CHARS} ELSE {}))
     \ (IF Option(opts, "excludeSimilarCharacters", FALSE) THEN SIMILAR_CHARS ELSE {}))
    \ (IF Option(opts, "excludeAmbiguousCharacters", FALSE) THEN AMBIGUOUS_CHARS ELSE {})

\* C15: a password returned by generatePassword has exactly `length`
\* characters (16 when length is not given), all of them from the pool of
\* the included classes less the excluded similar and ambiguous characters.
C15_LengthAndPool ==
  Returned =>
    /\ Len(generated.password) =
         (IF "length" \in DOMAIN generationOptions
          THEN generationOptions.length ELSE 16)
    /\ \A i \in 1..Len(generated.password) :
         generated.password[i] \in Admitted(generationOptions)

\* A password of the default length was returned with symbols included and
\* both exclusions in force.
C15_Witness ==
  /\ Returned
  /\ "length" \notin DOMAIN generationOptions
  /\ Len(generated.password) = 16
  /\ Option(generationOptions, "includeSymbols", TRUE)
  /\ Option(generationOptions, "excludeSimilarCharacters", FALSE)
  /\ Option(generationOptions, "excludeAmbiguousCharacters", FALSE)

\* C16: with an empty character pool generatePassword fails with the
\* invalid-configuration error, requests no random bytes and returns no
\* password.
C16_EmptyPoolError ==
  (GenerateDone /\ Admitted(generationOptions) = {}) =>
    /\ DOMAIN generated = {"error", "randomBytesCalls", "randomBytes"}
    /\ generated.error = "At least one character set must be included in the password"
    /\ generated.randomBytesCalls = 0
    /\ generated.randomBytes = "not called"

\* generatePassword has failed on a configuration that includes no class.
C16_Witness ==
  /\ GenerateDone
  /\ Admitted(generationOptions) = {}
  /\ "length" \in DOMAIN generationOptions
  /\ generationOptions.length > 0
  /\ generated.randomBytesCalls = 0
  /\ "error" \in DOMAIN generated

\* C17: when the random source cannot produce bytes, generatePassword fails
\* with the crypto-unavailable error after one attempt and returns no
\* password.
C17_CryptoFailure ==
  (GenerateDone /\ generated.randomBytes = "threw") =>
    /\ DOMAIN generated = {"error", "randomBytesCalls", "randomBytes"}
    /\ generated.error = "Crypto support is required for secure password generation"
    /\ generated.randomBytesCalls = 1

\* The random source has thrown for a request of a positive length.
C17_Witness ==
  /\ GenerateDone
  /\ generated.randomBytes = "threw"
  /\ "length" \in DOMAIN generationOptions
  /\ generationOptions.length > 0
  /\ "error" \in DOMAIN generated

FormatDone == formatted # Undefined

\* x < y for two finite numbers.
LessThan(x, y) ==
  IF x.m = 0 THEN y.m > 0
  ELSE y.m > 0 /\ (x.e < y.e \/ (x.e = y.e /\ x.m < y.m))

\* The number n * size, for n up to 200 (trailing zeros of the size are
\* moved into the exponent before multiplying).
RECURSIVE Multiple(_, _, _)
Multiple(n, size, zeros) ==
  IF size % 10 = 0 THEN Multiple(n, size \div 10, zeros + 1)
  ELSE Normal(n * size, zeros)

\* The seconds value is at least n of the i-th unit.
HasUnits(n, i) == ~LessThan(formatSeconds, Multiple(n, units[i].seconds, 0))

\* 0.000001 for 'online' and 1 for 'offline'
InstantlyThreshold ==
  IF formatContext = "online" THEN [m |-> 1000000, e |-> -12] ELSE [m |-> 1000000, e |-> -6]

TwoHundredYears == [m |-> 6307200, e |-> 3]

\* The result is '<n> <unit>' for the largest unit of which the seconds
\* value holds one or more, n being the whole number of them, with the
\* plural 's' unless n is 1.
FormatsAsUnit ==
  \E i \in 1..Len(units) :
    /\ HasUnits(1, i)
    /\ \A j \in 1..(i - 1) : ~HasUnits(1, j)
    /\ \E n \in 1..200 :
         /\ HasUnits(n, i)
         /\ ~HasUnits(n + 1, i)
         /\ formatted = [value |-> n, unit |-> units[i].unit,
                         suffix |-> IF n = 1 THEN "" ELSE "s"]

\* The part of C22 that does not depend on the reading of 'otherwise'.
FormatsLimits ==
  /\ ~IsFinite(formatSeconds) => formatted = [text |-> "centuries"]
  /\ IsFinite(formatSeconds) =>
       /\ LessThan(formatSeconds, InstantlyThreshold)
            => formatted = [text |-> "instantly"]
       /\ LessThan(TwoHundredYears, formatSeconds)
            => formatted = [text |-> "centuries"]
       /\ formatSeconds = TwoHundredYears
            => formatted = [value |-> 200, unit |-> "year", suffix |-> "s"]

InUnitRange ==
  /\ IsFinite(formatSeconds)
  /\ ~LessThan(formatSeconds, InstantlyThreshold)
  /\ ~LessThan(TwoHundredYears, formatSeconds)

\* C22 as stated: non-finite is 'centuries', below the threshold is
\* 'instantly', above 200 years is 'centuries', and every other value is
\* '<n> <unit>' for the largest unit with a floor quotient of 1 or more.
C22_FormatByLargestUnit ==
  FormatDone => (FormatsLimits /\ (InUnitRange => FormatsAsUnit))

\* C22 amended: as stated for the values of one second or more; a value
\* that is not below the threshold but below one second (of which no unit
\* has a floor quotient of 1) is 'instantly'.
C22_FormatByLargestUnitOrInstantly ==
  FormatDone =>
    /\ FormatsLimits
    /\ InUnitRange =>
         IF HasUnits(1, Len(units)) THEN FormatsAsUnit
         ELSE formatted = [text |-> "instantly"]

\* Exactly 200 years were formatted as '200 years'.
C22_Witness ==
  /\ FormatDone
  /\ formatSeconds = TwoHundredYears
  /\ formatted = [value |-> 200, unit |-> "year", suffix |-> "s"]

\* The fixed remediation string of a category.
Remedy(category) ==
  CASE category = "keyboard" -> "Avoid keyboard patterns like \"qwerty\" or \"asdfgh\""
    [] category = "sequential" -> "Avoid sequential characters like \"abc\" or \"123\""
    [] category = "repeated" -> "Avoid repeating the same character multiple times"
    [] category = "date" -> "Avoid using years or dates that might be associated with you"

RemedyIfFound(category) == IF Found(category) THEN <<Remedy(category)>> ELSE <<>>

GeneralSuggestion == "Consider using a randomly generated password instead"

\* C23: suggestions holds the remediation string of each triggered
\* category, once, in the order keyboard, sequential, repeated, date, then
\* the general suggestion exactly when the score is above 50; a score of 50
\* adds none, and no pattern gives the empty list.
C23_Suggestions ==
  PatternsDone =>
    /\ patterns.suggestions =
         RemedyIfFound("keyboard") \o RemedyIfFound("sequential")
           \o RemedyIfFound("repeated") \o RemedyIfFound("date")
           \o (IF patterns.patternRiskScore > 50 THEN <<GeneralSuggestion>> ELSE <<>>)
    /\ patterns.patternRiskScore = 50 =>
         /\ Len(patterns.suggestions) = 2
         /\ \A i \in 1..2 : patterns.suggestions[i] # GeneralSuggestion
    /\ patterns.detectedPatterns = <<>> => patterns.suggestions = <<>>

\* A keyboard pattern and a repeated run, score 50, two suggestions.
C23_Witness ==
  /\ PatternsDone
  /\ Found("keyboard") /\ Found("repeated")
  /\ patterns.patternRiskScore = 50
  /\ Len(patterns.suggestions) = 2

\* The number of descriptions of a category in detectedPatterns.
Described(category) ==
  Cardinality({i \in 1..Len(patterns.detectedPatterns) :
                 patterns.detectedPatterns[i].kind \in OfCategory(category)})

Lowercased(pw) ==
  [i \in 1..Len(pw) |-> IF pw[i] \in UpperLetters THEN pw[i] + 32 ELSE pw[i]]

\* C25: the analysis of a password equals the analysis of the password in
\* lowercase; 'QWERTY' triggers the keyboard detector and 'aAa' the
\* repeated-characters detector.
C25_CaseIgnored ==
  PatternsDone =>
    /\ patterns = analyzePasswordPatterns(Lowercased(password))
    /\ password = <<81, 87, 69, 82, 84, 89>> => patterns.hasKeyboardPattern
    /\ password = <<97, 65, 97>> => patterns.hasRepeatedChars

\* 'aAa' has been analysed and its repeated run found.
C25_Witness ==
  /\ PatternsDone
  /\ password = <<97, 65, 97>>
  /\ password # Lowercased(password)
  /\ patterns.hasRepeatedChars
  /\ patterns.detectedPatterns = << [kind |-> "Repeated characters", text |-> <<97, 97, 97>>] >>

\* No import has been rejected so far.
LoadsSucceed == \A c \in 1..Len(calls) : calls[c].import # "rejected"

OtherContext == IF formatContext = "online" THEN "offline" ELSE "online"

OneSecond == [m |-> 1000000, e |-> -6]

\* C27: formatTimeEstimate gives the same string in the 'online' and the
\* 'offline' context for every seconds value, and 'instantly' for every
\* finite value below one second in either.
C27_ContextIrrelevant ==
  FormatDone =>
    /\ formatted = formatTimeEstimate(formatSeconds, OtherContext)
    /\ (IsFinite(formatSeconds) /\ LessThan(formatSeconds, OneSecond))
         => formatted = [text |-> "instantly"]

\* An 'online' value between the online threshold and one second was
\* formatted.
C27_Witness ==
  /\ FormatDone
  /\ formatContext = "online"
  /\ IsFinite(formatSeconds)
  /\ ~LessThan(formatSeconds, InstantlyThreshold)
  /\ LessThan(formatSeconds, OneSecond)
  /\ formatted = [text |-> "instantly"]

\* C28: a call whose load fails leaves the cache as it was; a call made
\* while its size is not cached requests the import, and a call whose
\* import is fulfilled answers with the membership in the list.
C28_FailedLoadNotCached ==
  [][/\ \A c \in 1..Len(calls) :
          /\ (calls[c].import = "pending" /\ calls'[c].import = "rejected")
               => /\ commonPasswordsCache' = commonPasswordsCache
                  /\ calls'[c].result = [value |-> FALSE]
          /\ (calls[c].import = "pending" /\ calls'[c].import = "resolved")
               => calls'[c].result =
                    [value |-> calls[c].password
                                 \in PasswordList(CacheKey(calls[c].listSize))]
     /\ (/\ Len(calls') = Len(calls) + 1
         /\ CacheKey(calls'[Len(calls')].listSize) \notin DOMAIN commonPasswordsCache)
          => /\ calls'[Len(calls')].pc = "importing"
             /\ calls'[Len(calls')].imports = 1
    ]_vars

\* After a call whose load failed, with the size still uncached but another
\* size cached, a later call for the same size has loaded the list and
\* answered true.
C28_Witness ==
  \E c, d \in 1..Len(calls) :
    /\ c < d
    /\ CacheKey(calls[c].listSize) = CacheKey(calls[d].listSize)
    /\ calls[c].import = "rejected"
    /\ calls[d].import = "resolved"
    /\ calls[d].result = [value |-> TRUE]
    /\ Cardinality(DOMAIN commonPasswordsCache) = 2

\* None of the four classes is included (a flag left out is true).
NoClassIncluded(opts) ==
  /\ ~Option(opts, "includeLowercase", TRUE)
  /\ ~Option(opts, "includeUppercase", TRUE)
  /\ ~Option(opts, "includeNumbers", TRUE)
  /\ ~Option(opts, "includeSymbols", TRUE)

EmptyPoolError ==
  /\ "error" \in DOMAIN generated
  /\ generated.error = "At least one character set must be included in the password"

\* C29: over all combinations of the four include flags and the two
\* exclusion flags, the empty-pool error is raised exactly when all four
\* include flags are false.
C29_EmptyPoolOnlyWithoutClasses ==
  GenerateDone => (EmptyPoolError <=> NoClassIncluded(generationOptions))

\* Only the symbols were included, with both exclusions, and a password of
\* the remaining symbols was returned.
C29_Witness ==
  /\ Returned
  /\ DOMAIN generationOptions = OptionNames
  /\ generationOptions.includeSymbols
  /\ ~generationOptions.includeLowercase /\ ~generationOptions.includeUppercase
  /\ ~generationOptions.includeNumbers
  /\ generationOptions.excludeSimilarCharacters
  /\ generationOptions.excludeAmbiguousCharacters
  /\ Len(generated.password) = MaxLength

\* C30: each character is computed from its own pair of the random bytes,
\* no byte being read for two characters, and every index computed is a
\* position of the pool.
C30_OwnBytePair ==
  Returned =>
    /\ \A n, k \in 1..Len(generated.password) :
         n # k => generated.reads[n] \cap generated.reads[k] = {}
    /\ \A n \in 1..Len(generated.password) :
         /\ Cardinality(generated.reads[n]) = 2
         /\ generated.randomIndexes[n] \in 0..(Len(Chars(generationOptions)) - 1)

====
